---- MODULE Spec2Model ----
(***************************************************************************)
(* A model of the CanoRT medium classes: Layer, Canopy (core/layer.py,     *)
(* core/canopy.py), Soil, Sensor (core/soil.py, core/sensor.py) and the    *)
(* dielectric registry (dielectrics/*.py).                                 *)
(*                                                                         *)
(* Python objects are modelled as a heap: Layer objects and list objects   *)
(* have identities, a Canopy holds a reference to a list object, a list    *)
(* holds references to Layer objects.  Real-valued quantities are held as  *)
(* integers in hundredths of their unit (thickness 1.0 m = 100,            *)
(* temperature 273.15 K = 27315, frequency 1.41 GHz = 141).                *)
(***************************************************************************)
EXTENDS Integers, Sequences, FiniteSets, TLC

VARIABLES obj, lst, can, sums, layerRes, soil, sensor, sres

vars == <<obj, lst, can, sums, layerRes, soil, sensor, sres>>

(***************************************************************************)
(* Bounds of the model.                                                    *)
(***************************************************************************)
MaxCanopies == 2
MaxLayers == 3

(***************************************************************************)
(* core/constants.py, in hundredths.                                       *)
(***************************************************************************)
ZERO == 0
ONE == 100
DEFAULT_LEAF_THICKNESS == 17
DEFAULT_DRY_MASS_DENSITY == 30
DEFAULT_WATER_VOLUMETRIC_FRACTION == 0
DEFAULT_LAI == 0
MIN_LAYER_THICKNESS == 1
MAX_LAYER_THICKNESS == 10000
MIN_LAI == 0
MAX_LAI == 1000

\* Python's None for an Optional[complex]; a complex value is <<re, im>>.
None == <<>>

(***************************************************************************)
(* Layer.__init__: the three range checks, then the seven assignments.     *)
(***************************************************************************)
LayerArgs(t, temp, lt, wvf, la, dmd, dc) ==
    [thickness |-> t, temperature |-> temp, leaf_thickness |-> lt,
     water_volumetric_fraction |-> wvf, lai |-> la, dry_mass_density |-> dmd,
     dielectric_constant |-> dc]

Layer__init__NoLaiCheck(a) ==
    IF a.thickness < MIN_LAYER_THICKNESS \/ a.thickness > MAX_LAYER_THICKNESS
    THEN [ok |-> FALSE, err |-> "thickness"]
    ELSE IF a.water_volumetric_fraction < ZERO \/ a.water_volumetric_fraction > ONE
    THEN [ok |-> FALSE, err |-> "water_volumetric_fraction"]
    ELSE [ok |-> TRUE, err |-> "", layer |-> a]

Layer__init__(a) ==
    IF a.thickness < MIN_LAYER_THICKNESS \/ a.thickness > MAX_LAYER_THICKNESS
    THEN [ok |-> FALSE, err |-> "thickness"]
    ELSE IF a.lai < MIN_LAI \/ a.lai > MAX_LAI
    THEN [ok |-> FALSE, err |-> "lai"]
    ELSE IF a.water_volumetric_fraction < ZERO \/ a.water_volumetric_fraction > ONE
    THEN [ok |-> FALSE, err |-> "water_volumetric_fraction"]
    ELSE [ok |-> TRUE, err |-> "", layer |-> a]

\* Layer(thickness=1.0, temperature=300.0) as update_layer_number builds it.
ResizeLayerColder ==
    LayerArgs(100, 29315, DEFAULT_LEAF_THICKNESS, DEFAULT_WATER_VOLUMETRIC_FRACTION,
              DEFAULT_LAI, DEFAULT_DRY_MASS_DENSITY, None)

ResizeLayer ==
    LayerArgs(100, 30000, DEFAULT_LEAF_THICKNESS, DEFAULT_WATER_VOLUMETRIC_FRACTION,
              DEFAULT_LAI, DEFAULT_DRY_MASS_DENSITY, None)

(***************************************************************************)
(* The heap.  A world W is [obj, lst, can]: obj maps the identity of each  *)
(* live Layer object to its attributes, lst maps the identity of each live *)
(* list object to the sequence of Layer identities it holds, can[c] is the *)
(* list object that canopy c's `layers` attribute refers to.               *)
(***************************************************************************)
World == [obj |-> obj, lst |-> lst, can |-> can]

NewId(S) ==
    CHOOSE i \in 1..(Cardinality(S) + 1) : i \notin S /\ \A j \in 1..(i - 1) : j \in S

allocLayer(W, layer) ==
    LET id == NewId(DOMAIN W.obj)
    IN  [W |-> [W EXCEPT !.obj = (id :> layer) @@ W.obj], id |-> id]

allocList(W, ids) ==
    LET id == NewId(DOMAIN W.lst)
    IN  [W |-> [W EXCEPT !.lst = (id :> ids) @@ W.lst], id |-> id]

Layers(W, c) == W.lst[W.can[c]]

\* The attribute values of canopy c's layers, bottom to top.
View(W, c) == [i \in 1..Len(Layers(W, c)) |-> W.obj[Layers(W, c)[i]]]

Canopies(W) == 1..Len(W.can)

RECURSIVE firstSeen(_, _)
firstSeen(s, acc) ==
    IF s = <<>> THEN acc
    ELSE firstSeen(Tail(s),
                   IF \E i \in 1..Len(acc) : acc[i] = Head(s) THEN acc
                   ELSE Append(acc, Head(s)))

RECURSIVE concatLists(_, _)
concatLists(W, ls) ==
    IF ls = <<>> THEN <<>> ELSE W.lst[Head(ls)] \o concatLists(W, Tail(ls))

indexOf(s, x) == CHOOSE i \in 1..Len(s) : s[i] = x

\* Object identities carry no information beyond equality: the objects no
\* canopy can reach any more are dropped, and the live lists and Layer objects
\* are numbered in the order canopies 1, 2, ... reach them, bottom to top.
Collect(W) ==
    LET ls == firstSeen(W.can, <<>>)
        os == firstSeen(concatLists(W, ls), <<>>)
    IN  [obj |-> [i \in 1..Len(os) |-> W.obj[os[i]]],
         lst |-> [j \in 1..Len(ls) |->
                    [p \in 1..Len(W.lst[ls[j]]) |-> indexOf(os, W.lst[ls[j]][p])]],
         can |-> [c \in 1..Len(W.can) |-> indexOf(ls, W.can[c])]]

(***************************************************************************)
(* Canopy.__init__(layers): with layers None (0 here) a new empty list,    *)
(* otherwise the caller's list object itself.                              *)
(***************************************************************************)
Canopy__init__(W, layers) ==
    IF layers = 0
    THEN LET l == allocList(W, <<>>)
         IN  [W |-> [l.W EXCEPT !.can = Append(@, l.id)], c |-> Len(W.can) + 1]
    ELSE [W |-> [W EXCEPT !.can = Append(@, layers)], c |-> Len(W.can) + 1]

\* list.append / list.insert(0, .)
listAppendFront(s, o) == <<o>> \o s

listAppend(s, o) == Append(s, o)

\* Canopy.append_layer
append_layer(W, c, o) == [W EXCEPT !.lst[W.can[c]] = listAppend(@, o)]

\* list.pop() without an index: removes the top layer whatever i is.
delete_layerTop(W, c, i) ==
    LET s == Layers(W, c)
        n == Len(s)
        k == IF i < 0 THEN i + n ELSE i
    IN  IF k < 0 \/ k >= n
        THEN [ok |-> FALSE, W |-> W]
        ELSE [ok |-> TRUE,
              W |-> [W EXCEPT !.lst[W.can[c]] = SubSeq(s, 1, n - 1)]]

\* Canopy.delete_layer: list.pop(ilayer), negative indices count from the end.
delete_layer(W, c, i) ==
    LET s == Layers(W, c)
        n == Len(s)
        k == IF i < 0 THEN i + n ELSE i
    IN  IF k < 0 \/ k >= n
        THEN [ok |-> FALSE, W |-> W]
        ELSE [ok |-> TRUE,
              W |-> [W EXCEPT !.lst[W.can[c]] =
                        SubSeq(s, 1, k) \o SubSeq(s, k + 2, n)]]

\* Python's s[:n]
sliceTop(s, n) ==
    LET len == Len(s)
        stop == IF n < 0 THEN (IF len + n < 0 THEN 0 ELSE len + n)
                ELSE (IF n > len THEN len ELSE n)
    IN  SubSeq(s, len - stop + 1, len)

sliceTo(s, n) ==
    LET len == Len(s)
        stop == IF n < 0 THEN (IF len + n < 0 THEN 0 ELSE len + n)
                ELSE (IF n > len THEN len ELSE n)
    IN  SubSeq(s, 1, stop)

RECURSIVE appendNew(_, _, _, _)
appendNew(W, c, k, args) ==
    IF k <= 0 THEN W
    ELSE LET a == allocLayer(W, Layer__init__(args).layer)
         IN  appendNew(append_layer(a.W, c, a.id), c, k - 1, args)

\* A shrink that only ever drops the top layer.
update_layer_numberOneDown(W, c, n_layers) ==
    LET current_layers == Len(Layers(W, c))
    IN  IF n_layers > current_layers
        THEN appendNew(W, c, n_layers - current_layers, ResizeLayer)
        ELSE IF n_layers < current_layers
        THEN LET l == allocList(W, SubSeq(Layers(W, c), 1, current_layers - 1))
             IN  [l.W EXCEPT !.can[c] = l.id]
        ELSE W

\* Canopy.update_layer_number
update_layer_number(W, c, n_layers) ==
    LET current_layers == Len(Layers(W, c))
    IN  IF n_layers > current_layers
        THEN appendNew(W, c, n_layers - current_layers, ResizeLayer)
        ELSE IF n_layers < current_layers
        THEN LET l == allocList(W, sliceTo(Layers(W, c), n_layers))
             IN  [l.W EXCEPT !.can[c] = l.id]
        ELSE W

\* copy.deepcopy of a Layer: a new object with the same attribute values.
shallowcopyLayer(W, o) == [W |-> W, id |-> o]

deepcopyLayer(W, o) == allocLayer(W, W.obj[o])

RECURSIVE copyAll(_, _, _)
copyAll(W, s, acc) ==
    IF s = <<>> THEN [W |-> W, ids |-> acc]
    ELSE LET r == deepcopyLayer(W, Head(s))
         IN  copyAll(r.W, Tail(s), Append(acc, r.id))

\* A copy that forgets the layers: a new empty canopy.
Canopy__deepcopy__Empty(W, c) ==
    LET l == allocList(W, <<>>)
    IN  Canopy__init__(l.W, l.id)

\* Canopy.__deepcopy__
Canopy__deepcopy__(W, c) ==
    LET cp == copyAll(W, Layers(W, c), <<>>)
        l == allocList(cp.W, cp.ids)
    IN  Canopy__init__(l.W, l.id)

\* The loop of __add__ stopping one layer short of other's top.
RECURSIVE appendCopiesButLast(_, _, _)
appendCopiesButLast(W, r, s) ==
    IF Len(s) <= 1 THEN W
    ELSE LET d == allocLayer(W, W.obj[Head(s)])
         IN  appendCopiesButLast([d.W EXCEPT !.lst[d.W.can[r]] = Append(@, d.id)],
                                 r, Tail(s))

RECURSIVE appendCopies(_, _, _)
appendCopies(W, r, s) ==
    IF s = <<>> THEN W
    ELSE LET d == deepcopyLayer(W, Head(s))
         IN  appendCopies(append_layer(d.W, r, d.id), r, Tail(s))

\* Canopy.__add__
Canopy__add__(W, self, other) ==
    LET new_canopy == Canopy__deepcopy__(W, self)
    IN  [W |-> appendCopies(new_canopy.W, new_canopy.c, Layers(W, other)),
         c |-> new_canopy.c]

\* layer.<field> = value on the i-th layer (1-based here) of canopy c
setattr(W, c, i, f, v) == [W EXCEPT !.obj[Layers(W, c)[i]][f] = v]

(***************************************************************************)
(* The derived quantities of a Layer (core/layer.py).  The attributes are  *)
(* in hundredths and the constant factors 1000 (WATER_DENSITY_KG_M3,        *)
(* THOUSAND) and MM_TO_M = 1e-3 are kept in the unit, so that                *)
(* layer_water_content is in 1e-6 kg/m2 and agb in 1e-8 kg/m2.  A quotient   *)
(* is the pair <<numerator, denominator>> of the two in a common unit.      *)
(***************************************************************************)
layer_water_content(l) ==
    l.water_volumetric_fraction * l.lai * l.leaf_thickness

agb(l) ==
    (ONE - l.water_volumetric_fraction) * l.dry_mass_density * l.lai * l.leaf_thickness

\* Layer.lfmc: the value, or the error of the division, and the layer after the read
lfmc(l) ==
    IF agb(l) = 0
    THEN [ok |-> FALSE, err |-> "ZeroDivisionError", self |-> l]
    ELSE [ok |-> TRUE, err |-> "", self |-> l,
          value |-> <<layer_water_content(l) * 100, agb(l)>>]

(***************************************************************************)
(* The derived quantities of a Canopy (core/canopy.py), each computed from *)
(* self.layers at the time of the read.                                     *)
(***************************************************************************)
\* sum(...) and np.cumsum(...)
RECURSIVE SumSeq(_)
SumSeq(s) == IF s = <<>> THEN 0 ELSE s[1] + SumSeq(Tail(s))

cumsum(s) == [i \in 1..Len(s) |-> SumSeq(SubSeq(s, 1, i))]

\* The sum that forgets the top layer.
SumButLast(s) == IF s = <<>> THEN 0 ELSE SumSeq(SubSeq(s, 1, Len(s) - 1))

\* [f(layer) for layer in self.layers], for the attribute or property f
layerObjs(W, c) == [i \in 1..Len(Layers(W, c)) |-> W.obj[Layers(W, c)[i]]]

nlayers(W, c) == Len(Layers(W, c))

layer_thicknesses(W, c) == [i \in 1..nlayers(W, c) |-> layerObjs(W, c)[i].thickness]

thickness(W, c) == SumSeq(layer_thicknesses(W, c))

layer_top_heights(W, c) == cumsum(layer_thicknesses(W, c))

z(W, c) == <<0>> \o layer_top_heights(W, c)

layer_bottom_heights(W, c) == SubSeq(z(W, c), 1, Len(z(W, c)) - 1)

\* (top + bottom) / 2, in units of half a hundredth
layer_middle_heights(W, c) ==
    [i \in 1..Len(layer_top_heights(W, c)) |->
        layer_top_heights(W, c)[i] + layer_bottom_heights(W, c)[i]]

layer_lais(W, c) == [i \in 1..nlayers(W, c) |-> layerObjs(W, c)[i].lai]

LAI(W, c) == SumSeq(layer_lais(W, c))

layer_temperatures(W, c) == [i \in 1..nlayers(W, c) |-> layerObjs(W, c)[i].temperature]

layer_leaf_moisture_content(W, c) ==
    [i \in 1..nlayers(W, c) |-> layerObjs(W, c)[i].water_volumetric_fraction]

\* A total that misses the layer on top.
total_agbButTop(W, c) ==
    SumButLast([i \in 1..nlayers(W, c) |-> agb(layerObjs(W, c)[i])])

total_agb(W, c) == SumSeq([i \in 1..nlayers(W, c) |-> agb(layerObjs(W, c)[i])])

total_vwc(W, c) ==
    SumSeq([i \in 1..nlayers(W, c) |-> layer_water_content(layerObjs(W, c)[i])])

\* A guarded quotient: 0 for a canopy without biomass.
mean_lfmcGuarded(W, c) ==
    IF total_agb(W, c) = 0
    THEN [ok |-> TRUE, err |-> "", W |-> W, value |-> <<0, 1>>]
    ELSE [ok |-> TRUE, err |-> "", W |-> W,
          value |-> <<total_vwc(W, c) * 100, total_agb(W, c)>>]

\* Canopy.mean_lfmc: the value, or the error of the division, and the heap
\* after the read
mean_lfmc(W, c) ==
    IF total_agb(W, c) = 0
    THEN [ok |-> FALSE, err |-> "ZeroDivisionError", W |-> W]
    ELSE [ok |-> TRUE, err |-> "", W |-> W,
          value |-> <<total_vwc(W, c) * 100, total_agb(W, c)>>]

(***************************************************************************)
(* core/constants.py: the soil defaults, in hundredths.                    *)
(***************************************************************************)
DEFAULT_SOIL_BULK_DENSITY == 130
DEFAULT_SOIL_SPECIFIC_DENSITY == 265
DEFAULT_RMS_HGT == 1
DEFAULT_CORR_LENGTH == 10

\* An Optional[float] argument: <<>> is None, <<v>> the value v.
IsNone(x) == x = <<>>

(***************************************************************************)
(* Soil.__init__: the validation, in the order of the code, then the       *)
(* assignments with the defaults filled in.                                *)
(***************************************************************************)
\* A validation without the composition check.
SoilChecksNoSum(a) ==
    IF a.moisture < ZERO \/ a.moisture > ONE THEN "moisture"
    ELSE IF a.sand < ZERO \/ a.sand > ONE THEN "sand"
    ELSE IF a.clay < ZERO \/ a.clay > ONE THEN "clay"
    ELSE IF ~IsNone(a.rms_hgt) /\ a.rms_hgt[1] <= ZERO THEN "rms_hgt"
    ELSE IF ~IsNone(a.corr_length) /\ a.corr_length[1] <= ZERO THEN "corr_length"
    ELSE IF a.temperature < ZERO THEN "temperature"
    ELSE IF ~IsNone(a.bulk_density) /\ a.bulk_density[1] <= ZERO THEN "bulk_density"
    ELSE IF ~IsNone(a.specific_density) /\ a.specific_density[1] <= ZERO
    THEN "specific_density"
    ELSE ""

SoilChecks(a) ==
    IF a.moisture < ZERO \/ a.moisture > ONE THEN "moisture"
    ELSE IF a.sand < ZERO \/ a.sand > ONE THEN "sand"
    ELSE IF a.clay < ZERO \/ a.clay > ONE THEN "clay"
    ELSE IF a.sand + a.clay > ONE THEN "sand+clay"
    ELSE IF ~IsNone(a.rms_hgt) /\ a.rms_hgt[1] <= ZERO THEN "rms_hgt"
    ELSE IF ~IsNone(a.corr_length) /\ a.corr_length[1] <= ZERO THEN "corr_length"
    ELSE IF a.temperature < ZERO THEN "temperature"
    ELSE IF ~IsNone(a.bulk_density) /\ a.bulk_density[1] <= ZERO THEN "bulk_density"
    ELSE IF ~IsNone(a.specific_density) /\ a.specific_density[1] <= ZERO
    THEN "specific_density"
    ELSE ""

\* An assignment block that takes the bulk density's default for both densities.
SoilFieldsOneDensity(a) ==
    [exists |-> TRUE,
     temperature |-> a.temperature,
     moisture |-> a.moisture,
     sand |-> a.sand,
     clay |-> a.clay,
     diel_model |-> a.diel_model,
     rms_hgt |-> IF IsNone(a.rms_hgt) THEN DEFAULT_RMS_HGT ELSE a.rms_hgt[1],
     corr_length |-> IF IsNone(a.corr_length) THEN DEFAULT_CORR_LENGTH
                     ELSE a.corr_length[1],
     bulk_density |-> IF IsNone(a.bulk_density) THEN DEFAULT_SOIL_BULK_DENSITY
                      ELSE a.bulk_density[1],
     specific_density |-> IF IsNone(a.specific_density)
                          THEN DEFAULT_SOIL_BULK_DENSITY
                          ELSE a.specific_density[1]]

\* The assignments of Soil.__init__, None replaced by the default.
SoilFields(a) ==
    [exists |-> TRUE,
     temperature |-> a.temperature,
     moisture |-> a.moisture,
     sand |-> a.sand,
     clay |-> a.clay,
     diel_model |-> a.diel_model,
     rms_hgt |-> IF IsNone(a.rms_hgt) THEN DEFAULT_RMS_HGT ELSE a.rms_hgt[1],
     corr_length |-> IF IsNone(a.corr_length) THEN DEFAULT_CORR_LENGTH
                     ELSE a.corr_length[1],
     bulk_density |-> IF IsNone(a.bulk_density) THEN DEFAULT_SOIL_BULK_DENSITY
                      ELSE a.bulk_density[1],
     specific_density |-> IF IsNone(a.specific_density)
                          THEN DEFAULT_SOIL_SPECIFIC_DENSITY
                          ELSE a.specific_density[1]]

\* A constructor that rejects a model name outside the registry.
Soil__init__Eager(a) ==
    IF SoilChecks(a) # "" THEN [ok |-> FALSE, err |-> SoilChecks(a)]
    ELSE IF a.diel_model \notin {"dobson", "mironov", "wang"}
    THEN [ok |-> FALSE, err |-> "diel_model"]
    ELSE [ok |-> TRUE, err |-> "", soil |-> SoilFields(a)]

Soil__init__(a) ==
    IF SoilChecks(a) # "" THEN [ok |-> FALSE, err |-> SoilChecks(a)]
    ELSE [ok |-> TRUE, err |-> "", soil |-> SoilFields(a)]

\* make_soil: the factory's keyword defaults, and the call, which hands every
\* argument to Soil(...) unchanged.
make_soilDefaults ==
    [temperature |-> 29315, moisture |-> 20, sand |-> 50, clay |-> 30,
     diel_model |-> "dobson", rms_hgt |-> None, corr_length |-> None,
     bulk_density |-> None, specific_density |-> None]

make_soil(a) == Soil__init__(a)

\* Soil.silt
silt(s) == ONE - s.sand - s.clay

(***************************************************************************)
(* Sensor.__init__.  A frequency or angle argument is [list, v]: a Python  *)
(* number (list FALSE, v of length 1) or a list of numbers; the stored      *)
(* value is the number itself or the squeezed array, of which only the      *)
(* elements matter here.                                                    *)
(***************************************************************************)
Num(x) == [list |-> FALSE, v |-> <<x>>]

\* A check of the first element only.
firstNotPositive(x) == x.v[1] <= ZERO

\* np.any(x <= ZERO)
anyNotPositive(x) == \E i \in 1..Len(x.v) : x.v[i] <= ZERO

\* np.any(x < ZERO) or np.any(x > 90)
anyOutside(x) == (\E i \in 1..Len(x.v) : x.v[i] < ZERO) \/ (\E i \in 1..Len(x.v) : x.v[i] > 9000)

\* A polarization argument: None, a list of strings, or a string given as the
\* sequence of its characters, which is what list(polarization) makes of it.
NoPolarization == [kind |-> "None", v |-> <<>>]

PolList(v) == [kind |-> "list", v |-> v]

PolStr(v) == [kind |-> "str", v |-> v]

Sensor__init__(a) ==
    IF anyNotPositive(a.frequency) THEN [ok |-> FALSE, err |-> "frequency"]
    ELSE IF anyOutside(a.theta)
    THEN [ok |-> FALSE, err |-> "theta"]
    ELSE [ok |-> TRUE, err |-> "",
          sensor |-> [exists |-> TRUE,
                      frequency |-> a.frequency,
                      theta_deg |-> a.theta,
                      polarization |-> IF a.polarization.kind = "None"
                                       THEN <<"V", "H">>
                                       ELSE a.polarization.v,
                      name |-> a.name]]

\* Sensor.basic_checks
basic_checks(sens) ==
    IF \E i \in 1..Len(sens.frequency.v) : sens.frequency.v[i] < 30
    THEN [ok |-> FALSE, err |-> "Frequency not in microwave range"]
    ELSE [ok |-> TRUE, err |-> ""]

\* passive(frequency, theta, polarization, name)
passive(a) ==
    LET polarization == IF a.polarization.kind = "None" THEN PolList(<<"V", "H">>)
                        ELSE a.polarization
        r == Sensor__init__([a EXCEPT !.polarization = polarization])
    IN  IF ~r.ok THEN r
        ELSE IF ~basic_checks(r.sensor).ok
        THEN [ok |-> FALSE, err |-> basic_checks(r.sensor).err]
        ELSE r

\* io/sensor_list.py: smap(frequency=None, theta, polarization)
smap(a) ==
    passive([frequency |-> IF a.frequency = <<>> THEN Num(141) ELSE a.frequency[1],
             theta |-> a.theta, polarization |-> a.polarization, name |-> "SMAP"])

\* io/sensor_list.py: gmi(frequency=None, theta, polarization)
gmi(a) ==
    passive([frequency |-> IF a.frequency = <<>>
                           THEN [list |-> TRUE,
                                 v |-> <<1065, 1870, 2380, 3650, 8900, 16600, 18331>>]
                           ELSE a.frequency[1],
             theta |-> a.theta, polarization |-> a.polarization, name |-> "GMI"])

(***************************************************************************)
(* WaterDiels.debye(frequency, temperature).  The returned complex number  *)
(* is a function of oC = temperature - 273.15 and of omega = 2 pi          *)
(* frequency 1e9 alone; it is represented by that pair (omega in units of  *)
(* 2 pi 1e7 rad/s).  complex(e_real, e_imag) raises a TypeError when the   *)
(* operands are arrays of more than one element.                           *)
(***************************************************************************)
debye(frequency, temperature) ==
    IF Len(frequency.v) > 1 \/ Len(temperature.v) > 1
    THEN [ok |-> FALSE, err |-> "TypeError"]
    ELSE [ok |-> TRUE, err |-> "",
          value |-> [oC |-> temperature.v[1] - 27315, omega |-> frequency.v[1]]]

(***************************************************************************)
(* SoilDiels: the three formulas.  A returned permittivity is represented  *)
(* by the formula and the operands it is computed from.                    *)
(***************************************************************************)
\* sqrt((1 + 0.65 bulk_density + moisture^0.65 water - moisture)^2)
DobsonValue(bulk_density, moisture, water) ==
    [formula |-> "dobson", bulk_density |-> bulk_density, moisture |-> moisture,
     water |-> water]

\* A mixture that keeps the water term at any moisture.
MixValueKeep(moisture, water) ==
    [formula |-> "mix", moisture |-> moisture, water |-> water]

\* 1 + (water - 1) moisture: with moisture 0 the product is 0 and the sum 1
MixValue(moisture, water) ==
    IF moisture = 0 THEN [formula |-> "one"]
    ELSE [formula |-> "mix", moisture |-> moisture, water |-> water]

dobson_model(soilobj, frequency) ==
    LET water_diel == debye(Num(soilobj.temperature), frequency)
    IN  IF soilobj.specific_density = 0
        THEN [ok |-> FALSE, err |-> "ZeroDivisionError"]
        ELSE IF ~water_diel.ok THEN water_diel
        ELSE [ok |-> TRUE, err |-> "",
              value |-> DobsonValue(soilobj.bulk_density, soilobj.moisture, water_diel.value)]

mironov_model(soilobj, frequency) ==
    LET water_diel == debye(Num(soilobj.temperature), frequency)
    IN  IF ~water_diel.ok THEN water_diel
        ELSE [ok |-> TRUE, err |-> "", value |-> MixValue(soilobj.moisture, water_diel.value)]

\* A Wang model that hands the frequency and the temperature to debye in the
\* order of its signature.
wang_modelBound(soilobj, frequency) ==
    LET water_diel == debye(frequency, Num(soilobj.temperature))
    IN  IF ~water_diel.ok THEN water_diel
        ELSE [ok |-> TRUE, err |-> "", value |-> MixValue(soilobj.moisture, water_diel.value)]

wang_model(soilobj, frequency) ==
    LET water_diel == debye(Num(soilobj.temperature), frequency)
    IN  IF ~water_diel.ok THEN water_diel
        ELSE [ok |-> TRUE, err |-> "", value |-> MixValue(soilobj.moisture, water_diel.value)]

\* models.get(model_name, cls.dobson_model)
get_modelFallback(model_name) ==
    CASE model_name = "mironov" -> [ok |-> TRUE, err |-> "", f |-> "mironov_model"]
      [] model_name = "wang" -> [ok |-> TRUE, err |-> "", f |-> "wang_model"]
      [] OTHER -> [ok |-> TRUE, err |-> "", f |-> "dobson_model"]

\* SoilDiels.get_model
get_model(model_name) ==
    CASE model_name = "dobson" -> [ok |-> TRUE, err |-> "", f |-> "dobson_model"]
      [] model_name = "mironov" -> [ok |-> TRUE, err |-> "", f |-> "mironov_model"]
      [] model_name = "wang" -> [ok |-> TRUE, err |-> "", f |-> "wang_model"]
      [] OTHER -> [ok |-> FALSE, err |-> "ValueError: Unknown dielectric model",
                   f |-> "none"]

\* diel_const_func(self, sensor.frequency)
callModel(f, soilobj, frequency) ==
    CASE f = "dobson_model" -> dobson_model(soilobj, frequency)
      [] f = "mironov_model" -> mironov_model(soilobj, frequency)
      [] f = "wang_model" -> wang_model(soilobj, frequency)

\* Soil.dielectric_constant: what the call returns or raises, the function it
\* invoked and the soil's fields after the call.
Soil_dielectric_constant(self, sens) ==
    LET diel_const_func == get_model(self.diel_model)
    IN  IF ~diel_const_func.ok
        THEN [ok |-> FALSE, err |-> diel_const_func.err, func |-> "none", self |-> self]
        ELSE LET r == callModel(diel_const_func.f, self, sens.frequency)
             IN  IF r.ok
                 THEN [ok |-> TRUE, err |-> "", func |-> diel_const_func.f,
                       self |-> self, value |-> r.value]
                 ELSE [ok |-> FALSE, err |-> r.err, func |-> diel_const_func.f,
                       self |-> self]

(***************************************************************************)
(* The factories of make_medium.  A properties dict is the sequence of its  *)
(* <<key, value>> items in insertion order; an optional list is None or     *)
(* <<list>>.                                                                *)
(***************************************************************************)
DEFAULT_TEMPERATURE == 29315

\* for key, value in properties.items(): setattr(layer, key, value)
RECURSIVE setattrs(_, _)
setattrs(layer, properties) ==
    IF properties = <<>> THEN layer
    ELSE setattrs([layer EXCEPT ![Head(properties)[1]] = Head(properties)[2]],
                  Tail(properties))

\* make_layer: Layer(...) and then the properties, assigned without a check.
make_layer(a, properties) ==
    LET made == Layer__init__(a)
    IN  IF ~made.ok THEN made
        ELSE [ok |-> TRUE, err |-> "", layer |-> setattrs(made.layer, properties)]

\* xs[i] if xs is not None else default
OptAt(xs, i, default) == IF IsNone(xs) THEN default ELSE xs[1][i]

\* The loop of make_canopy from layer i on; a failing Layer(...) ends it.
RECURSIVE makeLayers(_, _, _, _)
makeLayers(W, a, i, acc) ==
    IF i > Len(a.thicknesses) THEN [ok |-> TRUE, err |-> "", W |-> W, ids |-> acc]
    ELSE LET made == make_layer(
                 LayerArgs(a.thicknesses[i], a.temperatures[i],
                           OptAt(a.leaf_thicknesses, i, 20),
                           OptAt(a.water_volumetric_fractions, i, 50),
                           OptAt(a.lais, i, 100),
                           OptAt(a.dry_mass_densities, i, 30),
                           OptAt(a.dielectric_constants, i, None)),
                 <<>>)
         IN  IF ~made.ok THEN [ok |-> FALSE, err |-> made.err, W |-> W, ids |-> acc]
             ELSE LET r == allocLayer(W, made.layer)
                  IN  makeLayers(r.W, a, i + 1, Append(acc, r.id))

\* The length checks of make_canopy: the name of the first list that fails.
lengthChecks(a) ==
    LET n_layers == Len(a.thicknesses)
        bad(xs) == ~IsNone(xs) /\ Len(xs[1]) # n_layers
    IN  IF Len(a.temperatures) # n_layers THEN "temperatures"
        ELSE IF bad(a.leaf_thicknesses) THEN "leaf_thicknesses"
        ELSE IF bad(a.water_volumetric_fractions) THEN "water_volumetric_fractions"
        ELSE IF bad(a.lais) THEN "lais"
        ELSE IF bad(a.dry_mass_densities) THEN "dry_mass_densities"
        ELSE IF bad(a.dielectric_constants) THEN "dielectric_constants"
        ELSE ""

\* make_canopy
make_canopy(W, a) ==
    IF lengthChecks(a) # "" THEN [ok |-> FALSE, err |-> lengthChecks(a), W |-> W]
    ELSE LET m == makeLayers(W, a, 1, <<>>)
         IN  IF ~m.ok THEN [ok |-> FALSE, err |-> m.err, W |-> W]
             ELSE LET l == allocList(m.W, m.ids)
                      r == Canopy__init__(l.W, l.id)
                  IN  [ok |-> TRUE, err |-> "", W |-> r.W, c |-> r.c]

\* [x] * n: n copies of x, none when n is negative
times(x, n) == [i \in 1..n |-> x]

\* create_uniform_canopy.  total / n_layers is exact for the totals used here,
\* which are multiples of n_layers.
create_uniform_canopy(W, a) ==
    IF a.n_layers = 0 THEN [ok |-> FALSE, err |-> "ZeroDivisionError", W |-> W]
    ELSE make_canopy(W,
            [thicknesses |-> times(a.total_thickness \div a.n_layers, a.n_layers),
             temperatures |-> times(a.temperature, a.n_layers),
             leaf_thicknesses |-> <<times(a.leaf_thickness, a.n_layers)>>,
             water_volumetric_fractions |->
                 <<times(a.water_volumetric_fraction, a.n_layers)>>,
             lais |-> <<times(a.total_lai \div a.n_layers, a.n_layers)>>,
             dry_mass_densities |-> <<times(a.dry_mass_density, a.n_layers)>>,
             dielectric_constants |-> None])

(***************************************************************************)
(* The state after start-up: no canopy, no soil, no sensor.  sums holds    *)
(* <<r, a, b>> for every canopy r that was returned by a + b.              *)
(***************************************************************************)
Init ==
    /\ obj = <<>>
    /\ lst = <<>>
    /\ can = <<>>
    /\ sums = {}
    /\ layerRes = [kind |-> "init"]
    /\ soil = [exists |-> FALSE]
    /\ sensor = [exists |-> FALSE]
    /\ sres = [kind |-> "init"]

\* The Layer a caller of the canopy operations builds: Layer(0.5, 300.0).
CanopyLayerArgs ==
    {LayerArgs(50, 30000, DEFAULT_LEAF_THICKNESS, DEFAULT_WATER_VOLUMETRIC_FRACTION,
               DEFAULT_LAI, DEFAULT_DRY_MASS_DENSITY, None)}

\* The attribute assignment a caller makes on a layer it reached through a
\* canopy: layer.thickness = 0.5.
Assignments == {<<"thickness", 50>>}

\* Layer slots in use: the total length of the live lists.
Slots(W) == Len(concatLists(W, [l \in 1..Len(W.lst) |-> l]))

\* The end of every canopy operation: the new heap and the sums.
Commit(W, s) ==
    LET G == Collect(W)
    IN  /\ Slots(G) <= MaxLayers
        /\ obj' = G.obj
        /\ lst' = G.lst
        /\ can' = G.can
        /\ sums' = s
        /\ UNCHANGED <<layerRes, soil, sensor, sres>>

\* Canopy()
NewCanopy ==
    /\ Len(can) < MaxCanopies
    /\ LET r == Canopy__init__(World, 0)
       IN  Commit(r.W, sums)

\* Canopy(layers=d.layers): the sums that involve d no longer own their layers.
NewCanopyFrom(d) ==
    /\ Len(can) < MaxCanopies
    /\ LET r == Canopy__init__(World, can[d])
       IN  Commit(r.W, {t \in sums : t[1] # d})

\* c.append_layer(Layer(...))
AppendNew(c, args) ==
    LET made == Layer__init__(args)
    IN  IF made.ok
        THEN LET a == allocLayer(World, made.layer)
             IN  Commit(append_layer(a.W, c, a.id), sums)
        ELSE Commit(World, sums)

\* c.append_layer(d.layers[i])
AppendExisting(c, d, i) ==
    /\ i \in 1..Len(Layers(World, d))
    /\ Commit(append_layer(World, c, Layers(World, d)[i]),
              IF c = d THEN sums ELSE {t \in sums : t[1] # c /\ t[1] # d})

\* c.delete_layer(i)
DeleteLayer(c, i) ==
    Commit(delete_layer(World, c, i).W, sums)

\* c.update_layer_number(n)
UpdateLayerNumber(c, n) ==
    Commit(update_layer_number(World, c, n), sums)

\* a + b
Add(a, b) ==
    /\ Len(can) < MaxCanopies
    /\ LET r == Canopy__add__(World, a, b)
       IN  Commit(r.W, sums \cup {<<r.c, a, b>>})

\* c.layers[i].<field> = value
SetAttr(c, i, fv) ==
    /\ i \in 1..Len(Layers(World, c))
    /\ Commit(setattr(World, c, i, fv[1], fv[2]), sums)

\* The indices a caller passes to delete_layer: every valid one, negative ones
\* included, and one past each end.
DeleteIndices(c) == (0 - Len(Layers(World, c)) - 1)..Len(Layers(World, c))

\* The counts a caller passes to update_layer_number.
ResizeCounts == (0 - 1)..MaxLayers

\* The heaps a caller can produce from W with one operation on canopy c:
\* append_layer of a new Layer, delete_layer, update_layer_number, or an
\* attribute assignment to one of c's layers.
MutationsThrough(W, c) ==
    {append_layer(allocLayer(W, Layer__init__(args).layer).W, c,
                  allocLayer(W, Layer__init__(args).layer).id) : args \in CanopyLayerArgs}
    \cup {delete_layer(W, c, i).W : i \in (0 - Len(Layers(W, c)) - 1)..Len(Layers(W, c))}
    \cup {update_layer_number(W, c, n) : n \in ResizeCounts}
    \cup {setattr(W, c, i, fv[1], fv[2]) : i \in 1..Len(Layers(W, c)), fv \in Assignments}

NextCanopy ==
    \/ NewCanopy
    \/ \E d \in Canopies(World) : NewCanopyFrom(d)
    \/ \E c \in Canopies(World), args \in CanopyLayerArgs : AppendNew(c, args)
    \/ \E c, d \in Canopies(World), i \in 1..MaxLayers : AppendExisting(c, d, i)
    \/ \E c \in Canopies(World) : \E i \in DeleteIndices(c) : DeleteLayer(c, i)
    \/ \E c \in Canopies(World), n \in ResizeCounts : UpdateLayerNumber(c, n)
    \/ \E a, b \in Canopies(World) : Add(a, b)
    \/ \E c \in Canopies(World), i \in 1..MaxLayers, fv \in Assignments : SetAttr(c, i, fv)

SpecCanopy == Init /\ [][NextCanopy]_vars

\* The canopy operations with every Layer argument freshly constructed: the
\* caller hands no list and no Layer object to two canopies.
NextOwned ==
    \/ NewCanopy
    \/ \E c \in Canopies(World), args \in CanopyLayerArgs : AppendNew(c, args)
    \/ \E c \in Canopies(World) : \E i \in DeleteIndices(c) : DeleteLayer(c, i)
    \/ \E c \in Canopies(World), n \in ResizeCounts : UpdateLayerNumber(c, n)
    \/ \E a, b \in Canopies(World) : Add(a, b)
    \/ \E c \in Canopies(World), i \in 1..MaxLayers, fv \in Assignments : SetAttr(c, i, fv)

SpecOwned == Init /\ [][NextOwned]_vars

(***************************************************************************)
(* Layer construction on its own: Layer(...) with arguments on, inside and *)
(* outside every bound.                                                     *)
(***************************************************************************)
LayerArgSet ==
    {LayerArgs(t, temp, lt, wvf, la, dmd, None) :
        t \in {0, 1, 50, 10000, 10001},
        temp \in {0 - 100, 30000},
        lt \in {0 - 5, 0, 17},
        wvf \in {0 - 1, 0, 50, 100, 101},
        la \in {0 - 1, 0, 500, 1000, 1001},
        dmd \in {0 - 30, 0, 30}}

\* Layer(thickness, temperature, ...)
MakeLayer(args) ==
    /\ layerRes' = [kind |-> "Layer", args |-> args, res |-> Layer__init__(args)]
    /\ UNCHANGED <<obj, lst, can, sums, soil, sensor, sres>>

NextLayer == \E args \in LayerArgSet : MakeLayer(args)

SpecLayer == Init /\ [][NextLayer]_vars

(***************************************************************************)
(* A soil, a sensor and the permittivity call.                              *)
(***************************************************************************)
ModelNames == {"dobson", "mironov", "wang", "unknown", "Dobson"}

SoilArgSet ==
    {[temperature |-> t, moisture |-> m, sand |-> sc[1], clay |-> sc[2],
      diel_model |-> dm, rms_hgt |-> <<>>, corr_length |-> <<>>,
      bulk_density |-> bd, specific_density |-> <<>>] :
        t \in {0 - 100, 0, 141, 29315},
        m \in {0, 30, 101},
        sc \in {<<60, 20>>, <<60, 50>>},
        dm \in ModelNames,
        bd \in {<<>>, <<150>>, <<0>>}}

SensorArgSet ==
    {[frequency |-> f, theta |-> th, polarization |-> NoPolarization, name |-> "None"] :
        f \in {Num(141), Num(29315), Num(0), [list |-> TRUE, v |-> <<141>>],
               [list |-> TRUE, v |-> <<690, 1065>>]},
        th \in {Num(4000), Num(9001)}}

\* Soil(...): the name is bound to the new object unless the constructor raises
NewSoil(args) ==
    LET r == Soil__init__(args)
    IN  /\ soil' = IF r.ok THEN r.soil ELSE soil
        /\ sres' = [kind |-> "Soil", ok |-> r.ok, err |-> r.err]
        /\ UNCHANGED <<obj, lst, can, sums, layerRes, sensor>>

\* Sensor(...)
NewSensor(args) ==
    LET r == Sensor__init__(args)
    IN  /\ sensor' = IF r.ok THEN r.sensor ELSE sensor
        /\ sres' = [kind |-> "Sensor", ok |-> r.ok, err |-> r.err]
        /\ UNCHANGED <<obj, lst, can, sums, layerRes, soil>>

\* soil.dielectric_constant(sensor)
DielectricConstant ==
    /\ soil.exists
    /\ sensor.exists
    /\ LET r == Soil_dielectric_constant(soil, sensor)
       IN  /\ soil' = r.self
           /\ sres' = [kind |-> "dielectric_constant", ok |-> r.ok, err |-> r.err,
                       func |-> r.func,
                       value |-> IF r.ok THEN r.value ELSE [formula |-> "none"]]
    /\ UNCHANGED <<obj, lst, can, sums, layerRes, sensor>>

NextSoil ==
    \/ \E args \in SoilArgSet : NewSoil(args)
    \/ \E args \in SensorArgSet : NewSensor(args)
    \/ DielectricConstant

SpecSoil == Init /\ [][NextSoil]_vars

(***************************************************************************)
(* Soil construction on its own: s = Soil(...) with each argument on,      *)
(* inside and outside its range.  The optional arguments are varied one at *)
(* a time.                                                                  *)
(***************************************************************************)
SoilOptionals ==
    {[rms_hgt |-> <<>>, corr_length |-> <<>>, bulk_density |-> <<>>,
      specific_density |-> <<>>]}
    \cup {[rms_hgt |-> x, corr_length |-> <<>>, bulk_density |-> <<>>,
           specific_density |-> <<>>] : x \in {<<0 - 1>>, <<0>>, <<2>>}}
    \cup {[rms_hgt |-> <<>>, corr_length |-> x, bulk_density |-> <<>>,
           specific_density |-> <<>>] : x \in {<<0 - 1>>, <<0>>, <<20>>}}
    \cup {[rms_hgt |-> <<>>, corr_length |-> <<>>, bulk_density |-> x,
           specific_density |-> <<>>] : x \in {<<0 - 1>>, <<0>>, <<150>>}}
    \cup {[rms_hgt |-> <<>>, corr_length |-> <<>>, bulk_density |-> <<>>,
           specific_density |-> x] : x \in {<<0 - 1>>, <<0>>, <<250>>}}

SoilInitArgSet ==
    {[temperature |-> t, moisture |-> m, sand |-> sc[1], clay |-> sc[2],
      diel_model |-> "dobson", rms_hgt |-> o.rms_hgt, corr_length |-> o.corr_length,
      bulk_density |-> o.bulk_density, specific_density |-> o.specific_density] :
        t \in {0 - 100, 0, 29315},
        m \in {0 - 1, 0, 100, 101},
        sc \in {<<60, 40>>, <<60, 41>>, <<0, 0>>, <<100, 0>>, <<0, 100>>,
                <<0 - 1, 20>>, <<101, 0>>, <<20, 0 - 1>>, <<0, 101>>},
        o \in SoilOptionals}

\* s = Soil(...): s is the new object, or there is none when the constructor raises
MakeSoil(args) ==
    LET r == Soil__init__(args)
    IN  /\ soil' = IF r.ok THEN r.soil ELSE [exists |-> FALSE]
        /\ sres' = [kind |-> "MakeSoil", args |-> args,
                    res |-> [ok |-> r.ok, err |-> r.err]]
        /\ UNCHANGED <<obj, lst, can, sums, layerRes, sensor>>

\* s = make_soil(...) with the defaults and the given optional arguments
MakeSoilFactory(o) ==
    LET args == [make_soilDefaults EXCEPT !.rms_hgt = o.rms_hgt,
                                          !.corr_length = o.corr_length,
                                          !.bulk_density = o.bulk_density,
                                          !.specific_density = o.specific_density]
        r == make_soil(args)
    IN  /\ soil' = IF r.ok THEN r.soil ELSE [exists |-> FALSE]
        /\ sres' = [kind |-> "make_soil", args |-> args,
                    res |-> [ok |-> r.ok, err |-> r.err]]
        /\ UNCHANGED <<obj, lst, can, sums, layerRes, sensor>>

NextSoilInit ==
    \/ \E args \in SoilInitArgSet : MakeSoil(args)
    \/ \E o \in SoilOptionals : MakeSoilFactory(o)

SpecSoilInit == Init /\ [][NextSoilInit]_vars

(***************************************************************************)
(* Sensor construction on its own: the constructor, the passive() factory  *)
(* and two of the named presets.                                            *)
(***************************************************************************)
NumList(v) == [list |-> TRUE, v |-> v]

SensorFrequencies ==
    {Num(141), Num(30), Num(29), Num(0), Num(0 - 100), NumList(<<141>>),
     NumList(<<690, 1065>>), NumList(<<690, 0>>), NumList(<<20, 690>>)}

SensorThetas ==
    {Num(0), Num(9000), Num(0 - 1), Num(9001), NumList(<<0, 9000>>),
     NumList(<<4000, 9001>>)}

SensorPolarizations ==
    {NoPolarization, PolList(<<"V", "H">>), PolList(<<"H">>), PolList(<<"X">>),
     PolList(<<"HV">>), PolStr(<<"H", "V">>), PolStr(<<"X", "H">>)}

SensorInitArgSet ==
    {[frequency |-> f, theta |-> th, polarization |-> p, name |-> "None"] :
        f \in SensorFrequencies, th \in SensorThetas, p \in SensorPolarizations}

PresetArgSet ==
    {[frequency |-> f, theta |-> th, polarization |-> p] :
        f \in {<<>>, <<Num(141)>>, <<Num(20)>>, <<NumList(<<690, 1065>>)>>,
               <<NumList(<<20, 690>>)>>},
        th \in SensorThetas, p \in SensorPolarizations}

\* The sensor a call yields, or none when it raises.
Made(how, args, r) ==
    /\ sensor' = IF r.ok THEN r.sensor ELSE [exists |-> FALSE]
    /\ sres' = [kind |-> "MakeSensor", how |-> how, args |-> args,
                res |-> [ok |-> r.ok, err |-> r.err]]
    /\ UNCHANGED <<obj, lst, can, sums, layerRes, soil>>

\* s = Sensor(...)
MakeSensor(args) == Made("Sensor", args, Sensor__init__(args))

\* s = passive(...)
MakePassive(args) == Made("passive", args, passive(args))

\* s = smap(...)
MakeSmap(args) == Made("smap", args, smap(args))

\* s = gmi(...)
MakeGmi(args) == Made("gmi", args, gmi(args))

NextSensor ==
    \/ \E args \in SensorInitArgSet : MakeSensor(args)
    \/ \E args \in SensorInitArgSet : MakePassive(args)
    \/ \E args \in PresetArgSet : MakeSmap(args)
    \/ \E args \in PresetArgSet : MakeGmi(args)

SpecSensor == Init /\ [][NextSensor]_vars

(***************************************************************************)
(* Canopies whose layers carry leaves: the structural operations and an    *)
(* attribute assignment interleaved, for the derived quantities.            *)
(***************************************************************************)
\* Layer(0.5, 300.0, water_volumetric_fraction=0.5, lai=3.0)
DerivedLayerArgs ==
    {LayerArgs(50, 30000, DEFAULT_LEAF_THICKNESS, 50, 300, DEFAULT_DRY_MASS_DENSITY, None)}

\* layer.lai = 3.0
DerivedAssignments == {<<"lai", 300>>}

NextDerived ==
    \/ NewCanopy
    \/ \E c \in Canopies(World), args \in DerivedLayerArgs : AppendNew(c, args)
    \/ \E c \in Canopies(World) : \E i \in DeleteIndices(c) : DeleteLayer(c, i)
    \/ \E c \in Canopies(World), n \in ResizeCounts : UpdateLayerNumber(c, n)
    \/ \E c \in Canopies(World), i \in 1..MaxLayers, fv \in DerivedAssignments :
          SetAttr(c, i, fv)
    \/ \E a, b \in Canopies(World) : Add(a, b)

SpecDerived == Init /\ [][NextDerived]_vars

(***************************************************************************)
(* Canopies built through the factories and then edited.                    *)
(***************************************************************************)
\* make_layer(1.0, 300.0) and make_layer(0.0, 300.0), the rest by default
MediumLayerArgs ==
    {LayerArgs(t, 30000, DEFAULT_LEAF_THICKNESS, DEFAULT_WATER_VOLUMETRIC_FRACTION,
               DEFAULT_LAI, DEFAULT_DRY_MASS_DENSITY, None) : t \in {100, 0}}

MediumProperties ==
    {<<>>,
     <<<<"temperature", 29315>>>>,
     <<<<"lai", 5000>>>>,
     <<<<"thickness", 0 - 100>>>>,
     <<<<"water_volumetric_fraction", 150>>, <<"lai", 200>>>>}

MakeCanopyArgs ==
    {[thicknesses |-> tt[1], temperatures |-> tt[2], leaf_thicknesses |-> None,
      water_volumetric_fractions |-> None, lais |-> la, dry_mass_densities |-> None,
      dielectric_constants |-> None] :
        tt \in {<< <<>>, <<>> >>, << <<100>>, <<30000>> >>,
                << <<100, 50>>, <<30000, 29000>> >>,
                << <<100>>, <<>> >>, << <<0>>, <<30000>> >>},
        la \in {None, << <<200>> >>, << <<200, 1001>> >>}}

CreateUniformArgs ==
    {[n_layers |-> n, total_thickness |-> tt, temperature |-> DEFAULT_TEMPERATURE,
      leaf_thickness |-> DEFAULT_LEAF_THICKNESS,
      water_volumetric_fraction |-> DEFAULT_WATER_VOLUMETRIC_FRACTION,
      total_lai |-> tl, dry_mass_density |-> DEFAULT_DRY_MASS_DENSITY] :
        n \in {0 - 1, 0, 1, 2}, tt \in {2, 100, 20002}, tl \in {DEFAULT_LAI, 400}}

\* c.append_layer(make_layer(..., properties=...))
AppendMade(c, a, properties) ==
    LET made == make_layer(a, properties)
    IN  IF made.ok
        THEN LET r == allocLayer(World, made.layer)
             IN  Commit(append_layer(r.W, c, r.id), sums)
        ELSE Commit(World, sums)

\* make_canopy(...)
MakeCanopy(a) ==
    /\ Len(can) < MaxCanopies
    /\ Commit(make_canopy(World, a).W, sums)

\* create_uniform_canopy(...)
CreateUniformCanopy(a) ==
    /\ Len(can) < MaxCanopies
    /\ Commit(create_uniform_canopy(World, a).W, sums)

NextMedium ==
    \/ NewCanopy
    \/ \E c \in Canopies(World), a \in MediumLayerArgs, properties \in MediumProperties :
          AppendMade(c, a, properties)
    \/ \E a \in MakeCanopyArgs : MakeCanopy(a)
    \/ \E a \in CreateUniformArgs : CreateUniformCanopy(a)
    \/ \E c \in Canopies(World) : \E i \in DeleteIndices(c) : DeleteLayer(c, i)
    \/ \E c \in Canopies(World), n \in ResizeCounts : UpdateLayerNumber(c, n)
    \/ \E a, b \in Canopies(World) : Add(a, b)

SpecMedium == Init /\ [][NextMedium]_vars

Next ==
    \/ NextCanopy \/ NextLayer \/ NextSoil \/ NextSoilInit \/ NextSensor
    \/ NextDerived \/ NextMedium

Spec == Init /\ [][Next]_vars

(***************************************************************************)
(* Properties of the canopy operations.                                    *)
(***************************************************************************)
\* The Layer objects canopy c holds.
Held(W, c) == {Layers(W, c)[i] : i \in 1..Len(Layers(W, c))}

\* C1: deep-copy isolation of combine.  At any time after r = a + b, an
\* attribute assignment to a layer of r and an append_layer, delete_layer or
\* update_layer_number on r leave the layer sequence and every layer attribute
\* of a and of b unchanged, and the same operations on a or b leave r unchanged.
C1_CombineIsolation ==
    \A t \in sums :
        /\ \A W1 \in MutationsThrough(World, t[1]) :
              /\ View(W1, t[2]) = View(World, t[2])
              /\ View(W1, t[3]) = View(World, t[3])
        /\ \A W1 \in MutationsThrough(World, t[2]) \cup MutationsThrough(World, t[3]) :
              View(W1, t[1]) = View(World, t[1])

\* A layer of the sum was assigned to after the sum was built: the sum no
\* longer equals its inputs stacked, and the inputs are as they were.
C1_Witness ==
    \E t \in sums :
          /\ Len(Layers(World, t[2])) > 0
          /\ Len(Layers(World, t[1])) = Len(Layers(World, t[2])) + Len(Layers(World, t[3]))
          /\ View(World, t[1]) # View(World, t[2]) \o View(World, t[3])
          /\ \A i \in 1..Len(Layers(World, t[2])) : View(World, t[2])[i] = ResizeLayer

\* C2: exclusive ownership.  No two canopies hold the same list object and no
\* Layer object is an element of the layer sequences of two canopies.
C2_ExclusiveOwnership ==
    \A c, d \in Canopies(World) :
        c # d => can[c] # can[d] /\ Held(World, c) \cap Held(World, d) = {}

\* C3: a + b is a new canopy with nlayers(a) + nlayers(b) layers, a's layers
\* then b's, attribute-wise equal and in order; no existing canopy is modified.
C3_AddStacks ==
    \A a, b \in Canopies(World) :
        LET R == Canopy__add__(World, a, b)
            na == Len(Layers(World, a))
            nb == Len(Layers(World, b))
        IN  /\ R.c \notin Canopies(World)
            /\ R.W.can[R.c] \notin DOMAIN lst
            /\ Len(Layers(R.W, R.c)) = na + nb
            /\ \A i \in 1..(na + nb) :
                  View(R.W, R.c)[i] = IF i <= na THEN View(World, a)[i]
                                      ELSE View(World, b)[i - na]
            /\ \A c \in Canopies(World) :
                  Layers(R.W, c) = Layers(World, c) /\ View(R.W, c) = View(World, c)

\* Two canopies with different layers exist, and stacking them gives the first
\* one's layers below the second one's.
C3_Witness ==
    \E a, b \in Canopies(World) :
        LET R == Canopy__add__(World, a, b)
        IN  /\ View(World, a) = <<ResizeLayer>>
            /\ Len(Layers(World, b)) = 2
            /\ View(World, b)[1] # ResizeLayer
            /\ View(R.W, R.c)[1] = ResizeLayer
            /\ View(R.W, R.c)[2] = View(World, b)[1]

\* C4: stacking is associative: (a + b) + c and a + (b + c) have the same
\* number of layers and attribute-wise equal layers index by index.
C4_AddAssociative ==
    \A a, b, c \in Canopies(World) :
        LET ab == Canopy__add__(World, a, b)
            l == Canopy__add__(ab.W, ab.c, c)
            bc == Canopy__add__(World, b, c)
            r == Canopy__add__(bc.W, a, bc.c)
        IN  View(l.W, l.c) = View(r.W, r.c)

\* Three stackable canopies, two of them with different layers, so that the
\* order of stacking shows in the result.
C4_Witness ==
    \E a, b \in Canopies(World) :
        LET ab == Canopy__add__(World, a, b)
            l == Canopy__add__(ab.W, ab.c, a)
            ba == Canopy__add__(World, b, a)
        IN  /\ Len(Layers(World, a)) > 0
            /\ Len(Layers(World, b)) > 0
            /\ View(ab.W, ab.c) # View(ba.W, ba.c)
            /\ Len(Layers(l.W, l.c)) = 2 * Len(Layers(World, a)) + Len(Layers(World, b))

\* C5: for 0 <= n < nlayers, update_layer_number(n) leaves exactly the
\* Layer objects that were at indices 0..n-1, in order and with their
\* attributes, and no other canopy's layers change.
C5_TruncateKeepsBottom ==
    \A c \in Canopies(World) :
        \A n \in 0..(Len(Layers(World, c)) - 1) :
            LET W1 == update_layer_number(World, c, n)
            IN  /\ Len(Layers(W1, c)) = n
                /\ \A i \in 1..n :
                      /\ Layers(W1, c)[i] = Layers(World, c)[i]
                      /\ W1.obj[Layers(W1, c)[i]] = obj[Layers(World, c)[i]]

\* A canopy of two different layers, of which update_layer_number(1) keeps
\* the bottom one.
C5_Witness ==
    \E c \in Canopies(World) :
        LET W1 == update_layer_number(World, c, 1)
        IN  /\ Len(Layers(World, c)) = 2
            /\ View(World, c)[1] # View(World, c)[2]
            /\ View(W1, c) = <<View(World, c)[1]>>

\* C6: for n > nlayers, update_layer_number(n) keeps the existing layers and
\* appends n - nlayers new, pairwise distinct Layer objects with thickness 1.0,
\* temperature 300.0, leaf_thickness 0.17, water_volumetric_fraction 0.0,
\* lai 0.0, dry_mass_density 0.3 and no dielectric constant; for n = nlayers
\* nothing changes.
C6_GrowAppendsDefaults ==
    \A c \in Canopies(World) :
        LET len == Len(Layers(World, c))
        IN  /\ update_layer_number(World, c, len) = World
            /\ \A n \in (len + 1)..(len + 2) :
                  LET W1 == update_layer_number(World, c, n)
                  IN  /\ Len(Layers(W1, c)) = n
                      /\ SubSeq(Layers(W1, c), 1, len) = Layers(World, c)
                      /\ \A o \in DOMAIN obj : W1.obj[o] = obj[o]
                      /\ \A i \in (len + 1)..n :
                            /\ Layers(W1, c)[i] \notin DOMAIN obj
                            /\ \A j \in (len + 1)..n :
                                  i # j => Layers(W1, c)[i] # Layers(W1, c)[j]
                            /\ W1.obj[Layers(W1, c)[i]] =
                                  [thickness |-> 100, temperature |-> 30000,
                                   leaf_thickness |-> 17,
                                   water_volumetric_fraction |-> 0, lai |-> 0,
                                   dry_mass_density |-> 30,
                                   dielectric_constant |-> None]

\* A canopy that update_layer_number grew by two layers on top of a layer a
\* caller had appended.
C6_Witness ==
    \E c \in Canopies(World) :
        /\ Len(Layers(World, c)) = 3
        /\ View(World, c)[1] # ResizeLayer
        /\ View(World, c)[2] = ResizeLayer
        /\ View(World, c)[3] = ResizeLayer
        /\ Layers(World, c)[2] # Layers(World, c)[3]

(***************************************************************************)
(* Properties of the soil permittivity call.                                *)
(***************************************************************************)
\* The permittivity the model named by the soil yields from water whose Debye
\* permittivity is taken at oC degrees Celsius and angular frequency omega.
ModelOnWater(s, oC, omega) ==
    IF s.diel_model = "dobson"
    THEN DobsonValue(s.bulk_density, s.moisture, [oC |-> oC, omega |-> omega])
    ELSE MixValue(s.moisture, [oC |-> oC, omega |-> omega])

\* C7: argument binding of the water model.  The complex value returned by
\* soil.dielectric_constant(sensor) equals the selected model's formula on
\* the Debye permittivity of water with t = soil.temperature - 273.15 in
\* degrees Celsius and omega = 2 pi sensor.frequency 1e9.
C7_WaterModelBinding ==
    (sres.kind = "dielectric_constant" /\ sres.ok)
        => sres.value = ModelOnWater(soil, soil.temperature - 27315,
                                     sensor.frequency.v[1])

\* The arguments of Soil(...) pass every check of the constructor.
SoilArgsValid(a) ==
    /\ a.moisture >= 0 /\ a.moisture <= 100
    /\ a.sand >= 0 /\ a.sand <= 100
    /\ a.clay >= 0 /\ a.clay <= 100
    /\ a.sand + a.clay <= 100
    /\ a.temperature >= 0
    /\ \A x \in {a.rms_hgt, a.corr_length, a.bulk_density, a.specific_density} :
          x = <<>> \/ x[1] > 0

Registered == {"dobson", "mironov", "wang"}

\* C8: timing of the unknown-model error.  Constructing a Soil whose
\* diel_model is not a registered name succeeds and stores the name, the
\* error is raised at every soil.dielectric_constant(sensor) on that soil and
\* only there, and the call leaves the soil's fields unchanged.
C8_UnknownModelTiming ==
    /\ \A a \in SoilArgSet :
          (SoilArgsValid(a) /\ a.diel_model \notin Registered)
              => /\ Soil__init__(a).ok
                 /\ Soil__init__(a).soil.diel_model = a.diel_model
    /\ \A a \in SoilArgSet :
          ~Soil__init__(a).ok
              => Soil__init__(a).err # "ValueError: Unknown dielectric model"
    /\ (soil.exists /\ sensor.exists /\ soil.diel_model \notin Registered)
          => /\ ~Soil_dielectric_constant(soil, sensor).ok
             /\ Soil_dielectric_constant(soil, sensor).err
                    = "ValueError: Unknown dielectric model"
             /\ Soil_dielectric_constant(soil, sensor).self = soil
    /\ (sres.kind = "dielectric_constant" /\ soil.diel_model \notin Registered)
          => /\ ~sres.ok
             /\ sres.err = "ValueError: Unknown dielectric model"

\* A soil with an unregistered model name exists and the call on it raised.
C8_Witness ==
    /\ sres.kind = "dielectric_constant"
    /\ soil.exists
    /\ soil.diel_model = "unknown"
    /\ ~sres.ok
    /\ sres.err = "ValueError: Unknown dielectric model"

\* C9: registry dispatch.  diel_model "dobson", "mironov" and "wang" select
\* dobson_model, mironov_model and wang_model, and dielectric_constant
\* returns what the selected function returns for (soil, sensor.frequency);
\* any other name raises the unknown-model error, with no fallback to a
\* default model and no None returned.
C9_RegistryDispatch ==
    /\ get_model("dobson") = [ok |-> TRUE, err |-> "", f |-> "dobson_model"]
    /\ get_model("mironov") = [ok |-> TRUE, err |-> "", f |-> "mironov_model"]
    /\ get_model("wang") = [ok |-> TRUE, err |-> "", f |-> "wang_model"]
    /\ \A n \in ModelNames \ Registered :
          /\ ~get_model(n).ok
          /\ get_model(n).err = "ValueError: Unknown dielectric model"
    /\ sres.kind = "dielectric_constant"
          => /\ soil.diel_model = "dobson"
                  => /\ sres.func = "dobson_model"
                     /\ sres.ok = dobson_model(soil, sensor.frequency).ok
                     /\ sres.ok => sres.value = dobson_model(soil, sensor.frequency).value
             /\ soil.diel_model = "mironov"
                  => /\ sres.func = "mironov_model"
                     /\ sres.ok = mironov_model(soil, sensor.frequency).ok
                     /\ sres.ok => sres.value = mironov_model(soil, sensor.frequency).value
             /\ soil.diel_model = "wang"
                  => /\ sres.func = "wang_model"
                     /\ sres.ok = wang_model(soil, sensor.frequency).ok
                     /\ sres.ok => sres.value = wang_model(soil, sensor.frequency).value
             /\ soil.diel_model \notin Registered
                  => /\ ~sres.ok
                     /\ sres.func = "none"
                     /\ sres.err = "ValueError: Unknown dielectric model"

\* The call on a "wang" soil returned wang_model's value.
C9_Witness ==
    /\ sres.kind = "dielectric_constant"
    /\ sres.ok
    /\ soil.diel_model = "wang"
    /\ sres.func = "wang_model"
    /\ soil.moisture > 0

(***************************************************************************)
(* Properties of Layer construction.                                        *)
(***************************************************************************)
\* C10: Layer(...) succeeds exactly when 0.01 <= thickness <= 100,
\* 0 <= lai <= 10 and 0 <= water_volumetric_fraction <= 1, the bounds
\* included; temperature, leaf_thickness and dry_mass_density never cause a
\* rejection.
C10_LayerRanges ==
    layerRes.kind = "Layer"
        => /\ layerRes.res.ok
                <=> /\ layerRes.args.thickness >= 1
                    /\ layerRes.args.thickness <= 10000
                    /\ layerRes.args.lai >= 0
                    /\ layerRes.args.lai <= 1000
                    /\ layerRes.args.water_volumetric_fraction >= 0
                    /\ layerRes.args.water_volumetric_fraction <= 100
           /\ layerRes.res.ok => layerRes.res.layer = layerRes.args

\* A Layer on three bounds at once, with negative temperature, leaf thickness
\* and dry mass density, was constructed.
C10_Witness ==
    /\ layerRes.kind = "Layer"
    /\ layerRes.res.ok
    /\ layerRes.args.thickness = 10000
    /\ layerRes.args.lai = 1000
    /\ layerRes.args.water_volumetric_fraction = 0
    /\ layerRes.args.temperature < 0
    /\ layerRes.args.leaf_thickness < 0
    /\ layerRes.args.dry_mass_density < 0

(***************************************************************************)
(* Properties of Soil construction.                                         *)
(***************************************************************************)
\* C11: Soil construction rejects, with a validation error and without
\* producing an object, every parameter set in which moisture, sand or clay
\* lies outside [0,1], or sand + clay > 1, or a supplied rms_hgt, corr_length,
\* bulk_density or specific_density is <= 0; every constructed Soil has
\* sand + clay <= 1 and silt = 1 - sand - clay >= 0.
C11_SoilRejects ==
    sres.kind = "MakeSoil"
        => /\ (\/ sres.args.moisture < 0 \/ sres.args.moisture > 100
               \/ sres.args.sand < 0 \/ sres.args.sand > 100
               \/ sres.args.clay < 0 \/ sres.args.clay > 100
               \/ sres.args.sand + sres.args.clay > 100
               \/ \E x \in {sres.args.rms_hgt, sres.args.corr_length,
                            sres.args.bulk_density, sres.args.specific_density} :
                     x # <<>> /\ x[1] <= 0)
                 => /\ ~sres.res.ok
                    /\ sres.res.err # ""
                    /\ ~soil.exists
           /\ soil.exists
                 => /\ soil.sand + soil.clay <= 100
                    /\ silt(soil) = 100 - soil.sand - soil.clay
                    /\ silt(soil) >= 0

\* Soil(sand=0.6, clay=0.41), each fraction in range, was rejected for the sum.
C11_Witness ==
    /\ sres.kind = "MakeSoil"
    /\ sres.args.sand = 60
    /\ sres.args.clay = 41
    /\ sres.args.moisture = 0
    /\ sres.args.temperature = 29315
    /\ ~sres.res.ok
    /\ sres.res.err = "sand+clay"
    /\ ~soil.exists

\* C12: Soil temperature must be strictly positive: constructing a Soil with
\* temperature <= 0 K, exactly 0 included, fails with a validation error, so
\* every constructed Soil has temperature > 0.
C12_TemperaturePositive ==
    sres.kind = "MakeSoil"
        => /\ sres.args.temperature <= 0 => ~sres.res.ok
           /\ soil.exists => soil.temperature > 0

(***************************************************************************)
(* Properties of Sensor construction.                                       *)
(***************************************************************************)
\* C13: Sensor construction validates every element independently: it fails
\* if any frequency (scalar or any element of a list) is <= 0 or if any
\* incidence angle is < 0 or > 90 degrees, it accepts angles exactly 0 and
\* exactly 90, and one invalid element in an otherwise valid list is enough
\* to reject.
C13_SensorElementwise ==
    (sres.kind = "MakeSensor" /\ sres.how = "Sensor")
        => /\ sres.res.ok
                <=> /\ \A i \in 1..Len(sres.args.frequency.v) :
                          sres.args.frequency.v[i] > 0
                    /\ \A i \in 1..Len(sres.args.theta.v) :
                          /\ sres.args.theta.v[i] >= 0
                          /\ sres.args.theta.v[i] <= 9000
           /\ sres.res.ok <=> sensor.exists
           /\ sres.res.ok
                => /\ sensor.frequency = sres.args.frequency
                   /\ sensor.theta_deg = sres.args.theta

\* Sensor([6.9, 0.0], [0, 90]) was rejected for its second frequency.
C13_Witness ==
    /\ sres.kind = "MakeSensor"
    /\ sres.how = "Sensor"
    /\ sres.args.frequency = NumList(<<690, 0>>)
    /\ sres.args.theta = NumList(<<0, 9000>>)
    /\ ~sres.res.ok
    /\ sres.res.err = "frequency"

\* C14: every Sensor object that exists after construction has all its
\* frequencies >= 0.3 GHz, whether built through the Sensor constructor,
\* through passive() or through a named preset.
C14_FrequencyFloor ==
    sensor.exists => \A i \in 1..Len(sensor.frequency.v) : sensor.frequency.v[i] >= 30

\* C15: every constructed Sensor's polarization is a subset of {'H','V'}:
\* omitted it is ['V','H'], and a polarization argument containing any other
\* symbol, as a list or as a string, yields no Sensor carrying that symbol.
C15_PolarizationSubset ==
    sensor.exists
        => /\ \A i \in 1..Len(sensor.polarization) : sensor.polarization[i] \in {"H", "V"}
           /\ (sres.kind = "MakeSensor" /\ sres.args.polarization.kind = "None")
                 => sensor.polarization = <<"V", "H">>

(***************************************************************************)
(* Properties of the derived quantities.                                    *)
(***************************************************************************)
\* C16: for every Layer that passes construction, layer_water_content >= 0
\* and agb >= 0, where layer_water_content = water_volumetric_fraction * 1000
\* * lai * leaf_thickness * 1e-3 and agb = (1 - water_volumetric_fraction) *
\* dry_mass_density * 1000 * lai * leaf_thickness * 1e-3.
C16_DerivedNonNegative ==
    (layerRes.kind = "Layer" /\ layerRes.res.ok)
        => /\ layer_water_content(layerRes.res.layer)
                = layerRes.args.water_volumetric_fraction * layerRes.args.lai
                    * layerRes.args.leaf_thickness
           /\ agb(layerRes.res.layer)
                = (100 - layerRes.args.water_volumetric_fraction)
                    * layerRes.args.dry_mass_density * layerRes.args.lai
                    * layerRes.args.leaf_thickness
           /\ layer_water_content(layerRes.res.layer) >= 0
           /\ agb(layerRes.res.layer) >= 0

\* Layers on and off each cause of a zero biomass.
LfmcLayerArgs ==
    {LayerArgs(100, 30000, lt, wvf, la, dmd, None) :
        lt \in {0, 17}, wvf \in {0, 50, 100}, la \in {0, 300}, dmd \in {0, 30}}

\* lai = 0, leaf_thickness = 0, dry_mass_density = 0 or water_volumetric_fraction = 1
NoBiomass(l) ==
    \/ l.lai = 0
    \/ l.leaf_thickness = 0
    \/ l.dry_mass_density = 0
    \/ l.water_volumetric_fraction = 100

\* C17: reading Layer.lfmc on a layer whose agb is 0 (lai = 0, leaf_thickness
\* = 0, dry_mass_density = 0 or water_volumetric_fraction = 1) and reading
\* Canopy.mean_lfmc on a canopy whose total_agb is 0 (the empty canopy and a
\* canopy made only of layers added by update_layer_number included) ends in
\* a division-by-zero error instead of a value, and leaves the layer and the
\* canopy state unchanged.
C17_DegenerateDivision ==
    /\ \A a \in LfmcLayerArgs :
          /\ Layer__init__(a).ok
          /\ NoBiomass(a)
                => /\ agb(Layer__init__(a).layer) = 0
                   /\ ~lfmc(Layer__init__(a).layer).ok
                   /\ lfmc(Layer__init__(a).layer).err = "ZeroDivisionError"
                   /\ lfmc(Layer__init__(a).layer).self = Layer__init__(a).layer
          /\ ~NoBiomass(a) => lfmc(Layer__init__(a).layer).ok
    /\ \A o \in 1..Len(obj) :
          NoBiomass(obj[o])
              => /\ ~lfmc(obj[o]).ok
                 /\ lfmc(obj[o]).err = "ZeroDivisionError"
                 /\ lfmc(obj[o]).self = obj[o]
    /\ \A c \in Canopies(World) :
          (\A i \in 1..Len(View(World, c)) : NoBiomass(View(World, c)[i]))
              => /\ total_agb(World, c) = 0
                 /\ ~mean_lfmc(World, c).ok
                 /\ mean_lfmc(World, c).err = "ZeroDivisionError"
                 /\ mean_lfmc(World, c).W = World

\* An empty canopy beside a canopy of two layers made by update_layer_number,
\* neither of which has a mean_lfmc.
C17_Witness ==
    \E c, d \in Canopies(World) :
        /\ View(World, c) = <<>>
        /\ View(World, d) = <<ResizeLayer, ResizeLayer>>
        /\ ~mean_lfmc(World, c).ok
        /\ ~mean_lfmc(World, d).ok
        /\ ~lfmc(View(World, d)[1]).ok

\* The defining formulas, on the attribute records v[1..k] of a layer sequence.
RECURSIVE DefThickness(_, _)
DefThickness(v, k) == IF k = 0 THEN 0 ELSE DefThickness(v, k - 1) + v[k].thickness

RECURSIVE DefLAI(_, _)
DefLAI(v, k) == IF k = 0 THEN 0 ELSE DefLAI(v, k - 1) + v[k].lai

RECURSIVE DefVwc(_, _)
DefVwc(v, k) ==
    IF k = 0 THEN 0
    ELSE DefVwc(v, k - 1) + v[k].water_volumetric_fraction * v[k].lai * v[k].leaf_thickness

RECURSIVE DefAgb(_, _)
DefAgb(v, k) ==
    IF k = 0 THEN 0
    ELSE DefAgb(v, k - 1)
            + (100 - v[k].water_volumetric_fraction) * v[k].dry_mass_density * v[k].lai
                * v[k].leaf_thickness

\* C20: no stale derived values.  After any interleaving of layer attribute
\* assignments and append_layer, delete_layer, update_layer_number, every
\* read of Layer.layer_water_content, Layer.agb, Layer.lfmc and of
\* Canopy.nlayers, thickness, LAI, total_agb, total_vwc, mean_lfmc and the
\* height arrays equals the defining formula applied to the attribute values
\* and the layer sequence current at the time of the read.
C20_NoStaleValues ==
    /\ \A o \in 1..Len(obj) :
          /\ layer_water_content(obj[o])
                = obj[o].water_volumetric_fraction * obj[o].lai * obj[o].leaf_thickness
          /\ agb(obj[o]) = DefAgb(<<obj[o]>>, 1)
          /\ lfmc(obj[o]).ok <=> DefAgb(<<obj[o]>>, 1) # 0
          /\ lfmc(obj[o]).ok
                => lfmc(obj[o]).value = <<DefVwc(<<obj[o]>>, 1) * 100, DefAgb(<<obj[o]>>, 1)>>
    /\ \A c \in Canopies(World) :
          LET v == View(World, c)
              n == Len(Layers(World, c))
          IN  /\ nlayers(World, c) = n
              /\ thickness(World, c) = DefThickness(v, n)
              /\ LAI(World, c) = DefLAI(v, n)
              /\ total_agb(World, c) = DefAgb(v, n)
              /\ total_vwc(World, c) = DefVwc(v, n)
              /\ mean_lfmc(World, c).ok <=> DefAgb(v, n) # 0
              /\ mean_lfmc(World, c).ok
                    => mean_lfmc(World, c).value = <<DefVwc(v, n) * 100, DefAgb(v, n)>>
              /\ Len(layer_top_heights(World, c)) = n
              /\ Len(layer_bottom_heights(World, c)) = n
              /\ Len(layer_middle_heights(World, c)) = n
              /\ Len(z(World, c)) = n + 1
              /\ z(World, c)[1] = 0
              /\ \A i \in 1..n :
                    /\ layer_thicknesses(World, c)[i] = v[i].thickness
                    /\ layer_top_heights(World, c)[i] = DefThickness(v, i)
                    /\ layer_bottom_heights(World, c)[i] = DefThickness(v, i - 1)
                    /\ z(World, c)[i + 1] = DefThickness(v, i)
                    /\ layer_middle_heights(World, c)[i]
                          = DefThickness(v, i) + DefThickness(v, i - 1)

\* A canopy grown by update_layer_number, whose bottom layer then had its lai
\* assigned and on which a leafy layer was appended, with another layer
\* removed in between: its totals are those of the two layers it holds now.
C20_Witness ==
    \E c \in Canopies(World) :
        /\ View(World, c) = <<[ResizeLayer EXCEPT !.lai = 300],
                              LayerArgs(50, 30000, 17, 50, 300, 30, None)>>
        /\ total_agb(World, c) = 100 * 30 * 300 * 17 + 50 * 30 * 300 * 17
        /\ total_vwc(World, c) = 50 * 300 * 17
        /\ thickness(World, c) = 150
        /\ mean_lfmc(World, c).ok

(***************************************************************************)
(* Properties of the soil models.                                           *)
(***************************************************************************)
\* Soil-like values, constructible as a Soil or not, and frequencies.
SoilLikes ==
    {[temperature |-> t, moisture |-> m, sand |-> 60, clay |-> 20,
      bulk_density |-> bd, specific_density |-> 265] :
        t \in {0, 27315, 29315}, m \in {0 - 10, 0, 30, 150}, bd \in {130, 150}}

ModelFrequencies == {Num(141), Num(1065), Num(29315), NumList(<<1065>>)}

\* C18: the 'mironov' and 'wang' models are observationally equivalent: for
\* every soil-like value and every frequency, mironov_model(soil, f) and
\* wang_model(soil, f) return the same value, although they are distinct
\* registry entries resolved to distinct functions.
C18_MironovWangEquivalent ==
    /\ get_model("mironov").ok
    /\ get_model("wang").ok
    /\ get_model("mironov").f # get_model("wang").f
    /\ \A sl \in SoilLikes, f \in ModelFrequencies \cup {NumList(<<690, 1065>>)} :
          mironov_model(sl, f) = wang_model(sl, f)
    /\ (soil.exists /\ sensor.exists)
          => mironov_model(soil, sensor.frequency) = wang_model(soil, sensor.frequency)
    /\ (sres.kind = "dielectric_constant" /\ sres.ok
            /\ soil.diel_model \in {"mironov", "wang"})
          => /\ sres.value = mironov_model(soil, sensor.frequency).value
             /\ sres.value = wang_model(soil, sensor.frequency).value

\* The call on a moist 'mironov' soil returned what wang_model returns for it.
C18_Witness ==
    /\ sres.kind = "dielectric_constant"
    /\ sres.ok
    /\ soil.diel_model = "mironov"
    /\ sres.func = "mironov_model"
    /\ soil.moisture > 0
    /\ sres.value = wang_model(soil, sensor.frequency).value
    /\ sres.value.formula = "mix"

\* C19: at moisture = 0 the mironov and wang models both return exactly 1
\* (real part 1, imaginary part 0) for every soil temperature and every
\* frequency: the result does not depend on the water permittivity.
C19_DrySoilIsOne ==
    /\ \A sl \in SoilLikes, f \in ModelFrequencies :
          sl.moisture = 0
              => /\ mironov_model(sl, f).ok
                 /\ mironov_model(sl, f).value = [formula |-> "one"]
                 /\ wang_model(sl, f).ok
                 /\ wang_model(sl, f).value = [formula |-> "one"]
    /\ (sres.kind = "dielectric_constant" /\ soil.diel_model \in {"mironov", "wang"}
            /\ soil.moisture = 0 /\ Len(sensor.frequency.v) = 1)
          => /\ sres.ok
             /\ sres.value = [formula |-> "one"]

\* The call on a dry 'wang' soil at 0 K returned 1.
C19_Witness ==
    /\ sres.kind = "dielectric_constant"
    /\ sres.ok
    /\ soil.diel_model = "wang"
    /\ soil.moisture = 0
    /\ soil.temperature = 0
    /\ sres.value = [formula |-> "one"]

\* C22: aggregates are additive under stacking: for all canopies a and b,
\* (a + b).nlayers = a.nlayers + b.nlayers, and likewise for thickness, LAI,
\* total_agb and total_vwc.
C22_AdditiveAggregates ==
    \A a, b \in Canopies(World) :
        LET r == Canopy__add__(World, a, b)
        IN  /\ nlayers(r.W, r.c) = nlayers(World, a) + nlayers(World, b)
            /\ thickness(r.W, r.c) = thickness(World, a) + thickness(World, b)
            /\ LAI(r.W, r.c) = LAI(World, a) + LAI(World, b)
            /\ total_agb(r.W, r.c) = total_agb(World, a) + total_agb(World, b)
            /\ total_vwc(r.W, r.c) = total_vwc(World, a) + total_vwc(World, b)

\* Two different canopies, both with leaves and of different sizes, whose
\* sum has aggregates larger than either operand's and equal to their sums.
C22_Witness ==
    \E a, b \in Canopies(World) :
        LET r == Canopy__add__(World, a, b)
        IN  /\ a # b
            /\ nlayers(World, a) >= 1
            /\ nlayers(World, b) > nlayers(World, a)
            /\ total_vwc(World, a) > 0
            /\ total_agb(World, b) > total_agb(World, a)
            /\ nlayers(r.W, r.c) = nlayers(World, a) + nlayers(World, b)
            /\ thickness(r.W, r.c) = thickness(World, a) + thickness(World, b)
            /\ LAI(r.W, r.c) = LAI(World, a) + LAI(World, b)
            /\ total_agb(r.W, r.c) = total_agb(World, a) + total_agb(World, b)
            /\ total_vwc(r.W, r.c) = total_vwc(World, a) + total_vwc(World, b)

\* C23: delete_layer(i) with 0 <= i < c removes exactly layer i: the canopy
\* has c - 1 layers, the layers below i keep their index, the layers above i
\* move down by one and no layer's attributes change; with i >= c an error is
\* raised and the canopy is unchanged.
C23_DeleteExactlyOne ==
    \A c \in Canopies(World) : \A i \in 0..(MaxLayers + 1) :
        LET s == Layers(World, c)
            r == delete_layer(World, c, i)
            t == Layers(r.W, c)
        IN  IF i < Len(s)
            THEN /\ r.ok
                 /\ Len(t) = Len(s) - 1
                 /\ \A j \in 1..i : t[j] = s[j]
                 /\ \A j \in (i + 1)..Len(t) : t[j] = s[j + 1]
                 /\ r.W.obj = World.obj
            ELSE /\ ~r.ok
                 /\ r.W = World

\* A canopy of three layers, the middle one unlike the others, from which
\* delete_layer(1) leaves the bottom and the top layer, and on which
\* delete_layer(3) fails.
C23_Witness ==
    \E c \in Canopies(World) :
        LET s == Layers(World, c)
            r == delete_layer(World, c, 1)
        IN  /\ Len(s) = 3
            /\ World.obj[s[2]] # World.obj[s[1]]
            /\ r.ok
            /\ Layers(r.W, c) = <<s[1], s[3]>>
            /\ ~delete_layer(World, c, 3).ok

\* C27: after update_layer_number(n) with n >= 0 the canopy has exactly n
\* layers and a second call with the same n changes nothing; with n < 0 the
\* call raises no error and leaves the bottom max(0, c + n) layers.
C27_ResizeCount ==
    \A c \in Canopies(World) : \A n \in (0 - (MaxLayers + 1))..(MaxLayers + 1) :
        LET s == Layers(World, c)
            W1 == update_layer_number(World, c, n)
            keep == IF Len(s) + n > 0 THEN Len(s) + n ELSE 0
        IN  IF n >= 0
            THEN /\ nlayers(W1, c) = n
                 /\ update_layer_number(W1, c, n) = W1
            ELSE /\ Layers(W1, c) = SubSeq(s, 1, keep)
                 /\ W1.obj = World.obj

\* A canopy of three layers that update_layer_number(2) and
\* update_layer_number(-1) both cut to its two bottom layers, that
\* update_layer_number(-3) empties and that update_layer_number(4) grows.
C27_Witness ==
    \E c \in Canopies(World) :
        LET s == Layers(World, c)
        IN  /\ Len(s) = 3
            /\ Layers(update_layer_number(World, c, 2), c) = <<s[1], s[2]>>
            /\ Layers(update_layer_number(World, c, 0 - 1), c) = <<s[1], s[2]>>
            /\ Layers(update_layer_number(World, c, 0 - 3), c) = <<>>
            /\ nlayers(update_layer_number(World, c, 4), c) = 4

\* Soil-like values for dobson_model that agree with soil-like x on moisture,
\* temperature and bulk_density: any object with the six attributes of the
\* SoilLike protocol, whatever its sand, clay and specific_density.
DobsonVariants(x) ==
    {[temperature |-> x.temperature, moisture |-> x.moisture,
      sand |-> sa, clay |-> cl,
      bulk_density |-> x.bulk_density, specific_density |-> sd] :
        sa \in {0, 60, 100}, cl \in {0, 20, 100}, sd \in {0, 100, 265, 300}}

\* C24: non-interference in the Dobson model: two soil-like values that agree
\* on moisture, temperature and bulk_density but differ in sand, clay and
\* specific_density give the same dobson_model result at the same frequency.
C24_DobsonNonInterference ==
    soil.exists
        => \A x, y \in DobsonVariants(soil) :
              \A f \in ModelFrequencies \cup
                       (IF sensor.exists THEN {sensor.frequency} ELSE {}) :
                  /\ dobson_model(x, f) = dobson_model(y, f)
                  /\ dobson_model(x, f) = dobson_model(soil, f)

\* C26: soil.dielectric_constant(sensor) fails only when the soil's
\* diel_model is not a registered name: on every constructed Soil with a
\* registered name and every constructed Sensor, a Sensor of several
\* frequencies included, the call returns a value, raises no error and
\* changes no field of the soil.
C26_FailsOnlyOnUnknownModel ==
    /\ (soil.exists /\ sensor.exists /\ soil.diel_model \in Registered)
          => /\ Soil_dielectric_constant(soil, sensor).ok
             /\ Soil_dielectric_constant(soil, sensor).self = soil
    /\ (sres.kind = "dielectric_constant" /\ soil.diel_model \in Registered)
          => sres.ok

\* C25: the optional fields of a Soil are resolved at construction: None for
\* rms_hgt, corr_length, bulk_density or specific_density passes validation
\* and stores the default (0.01, 0.1, 1.3, 2.65), so on every constructed
\* Soil, from Soil(...) or make_soil(...), the four fields are positive
\* numbers and every soil model reads the two densities without failing.
C25_OptionalsResolved ==
    sres.kind \in {"MakeSoil", "make_soil"}
        => LET a == sres.args
           IN  /\ SoilArgsValid(a) => sres.res.ok
               /\ sres.res.ok <=> soil.exists
               /\ soil.exists
                    => /\ IsNone(a.rms_hgt) => soil.rms_hgt = 1
                       /\ IsNone(a.corr_length) => soil.corr_length = 10
                       /\ IsNone(a.bulk_density) => soil.bulk_density = 130
                       /\ IsNone(a.specific_density) => soil.specific_density = 265
                       /\ ~IsNone(a.rms_hgt) => soil.rms_hgt = a.rms_hgt[1]
                       /\ ~IsNone(a.corr_length) => soil.corr_length = a.corr_length[1]
                       /\ ~IsNone(a.bulk_density) => soil.bulk_density = a.bulk_density[1]
                       /\ ~IsNone(a.specific_density)
                             => soil.specific_density = a.specific_density[1]
                       /\ soil.rms_hgt > 0
                       /\ soil.corr_length > 0
                       /\ soil.bulk_density > 0
                       /\ soil.specific_density > 0
                       /\ \A f \in {"dobson_model", "mironov_model", "wang_model"} :
                             callModel(f, soil, Num(141)).ok

\* make_soil() with no optional argument returned a soil holding the four
\* defaults.
C25_Witness ==
    /\ sres.kind = "make_soil"
    /\ IsNone(sres.args.rms_hgt)
    /\ IsNone(sres.args.corr_length)
    /\ IsNone(sres.args.bulk_density)
    /\ IsNone(sres.args.specific_density)
    /\ sres.res.ok
    /\ soil.exists
    /\ soil.rms_hgt = 1
    /\ soil.corr_length = 10
    /\ soil.bulk_density = 130
    /\ soil.specific_density = 265

\* C28: range invariant over all reachable canopies: every Layer in a Canopy
\* produced by any sequence of make_layer (properties overrides included),
\* make_canopy, create_uniform_canopy, Canopy construction, append_layer,
\* delete_layer, update_layer_number and + has 0.01 <= thickness <= 100,
\* 0 <= lai <= 10 and 0 <= water_volumetric_fraction <= 1.
C28_LayersInRange ==
    \A c \in Canopies(World) : \A i \in 1..nlayers(World, c) :
        LET l == layerObjs(World, c)[i]
        IN  /\ MIN_LAYER_THICKNESS <= l.thickness
            /\ l.thickness <= MAX_LAYER_THICKNESS
            /\ MIN_LAI <= l.lai
            /\ l.lai <= MAX_LAI
            /\ ZERO <= l.water_volumetric_fraction
            /\ l.water_volumetric_fraction <= ONE

\* C21: height consistency of every canopy with n >= 1 layers: the lowest
\* bottom is 0, each top is its bottom plus the layer's thickness, each
\* bottom is the top of the layer below, the highest top is the canopy's
\* thickness, each middle is the mean of top and bottom, z has n + 1 entries,
\* starts at 0 and is non-decreasing, and top, bottom and middle have n
\* entries each.
C21_HeightsConsistent ==
    \A c \in Canopies(World) :
        LET n == nlayers(World, c)
            top == layer_top_heights(World, c)
            bottom == layer_bottom_heights(World, c)
            middle == layer_middle_heights(World, c)
            heights == z(World, c)
        IN  n >= 1
              => /\ bottom[1] = 0
                 /\ \A i \in 1..n : top[i] = bottom[i] + layer_thicknesses(World, c)[i]
                 /\ \A i \in 1..(n - 1) : bottom[i + 1] = top[i]
                 /\ top[n] = thickness(World, c)
                 /\ \A i \in 1..n : middle[i] = top[i] + bottom[i]
                 /\ Len(heights) = n + 1
                 /\ heights[1] = 0
                 /\ \A i \in 1..n : heights[i] <= heights[i + 1]
                 /\ Len(top) = n /\ Len(bottom) = n /\ Len(middle) = n

====
